---- MODULE Spec2Model ----
(***************************************************************************)
(* Model of convert_logo.py: one run of the script (the __main__ block     *)
(* calling png_to_c_bitmap), with the packing loop and the literal         *)
(* renderer taken step by step from the source.                            *)
(*                                                                         *)
(* Text is a sequence of strings; everything the renderer appends after    *)
(* the template is one character per element.  Python's 0-based            *)
(* pixels[k] is pixels[k + 1] here.                                        *)
(***************************************************************************)
EXTENDS Integers, Sequences, FiniteSets, TLC

VARIABLES
    pc,           \* position of the run
    width,        \* img.size[0] after the conversions (line 27)
    height,       \* img.size[1] after the conversions (line 27)
    pixels,       \* list(img.getdata()) (line 31), row-major
    y, x, bit,    \* loop variables of lines 35, 36, 38
    byte_val,     \* line 37
    bitmap_data,  \* line 34
    reads,        \* reads[k]: how often pixels[k] was evaluated at line 41
    c_code,       \* lines 46-64
    i,            \* loop variable of line 56
    c_bitmap,     \* line 73
    outFile,      \* app/src/augmental_logo.h on disk
    wr,           \* f.write calls of lines 78-86 completed
    exc,          \* the exception in flight, "none" when there is none
    stdout,       \* what print has emitted, one tag per call
    exitStatus,   \* process exit status, -1 while running
    run,          \* which execution of the packing loop this is
    first         \* bitmap_data of the first execution (two-run specification)

vars == <<pc, width, height, pixels, y, x, bit, byte_val, bitmap_data, reads,
          c_code, i, c_bitmap, outFile, wr, exc, stdout, exitStatus, run, first>>

imgVars  == <<width, height, pixels>>
packVars == <<y, x, bit, byte_val, bitmap_data, reads>>
textVars == <<c_code, i, c_bitmap>>
fileVars == <<outFile, wr>>
runVars  == <<run, first>>

----------------------------------------------------------------------------
(* Bounds of the model. *)

\* largest number of samples W*H of an enumerated pixel grid
MaxCells == 9

\* largest packed bitmap handed to the renderer on its own
MaxBytes == 33

(* Program constants. *)

\* rows per page: range(0, height, 8) and range(8)
PageRows == 8

\* literals per line: range(0, len(bitmap_data), 16)
RowLen == 16

\* the sample value compared with at line 41
Black == 0

\* f.write calls inside the with block
NumWrites == 9

\* sys.exit(1)
ExitFailure == 1

\* status of a script that runs off its end
ExitSuccess == 0

\* values of a mode '1' image's getdata()
PixelValues == {0, 255}

----------------------------------------------------------------------------
(* Arithmetic helpers. *)

Pow2(n) == 2 ^ n

\* bit b of v
BitOf(v, b) == (v \div Pow2(b)) % 2

\* OrBit with the bits counted from the most significant end
OrBitMsb(v, b) ==
    IF BitOf(v, 7 - b) = 1 THEN v ELSE v + Pow2(7 - b)

\* v | (1 << b)
OrBit(v, b) == IF BitOf(v, b) = 1 THEN v ELSE v + Pow2(b)

CeilDiv(a, b) == (a + b - 1) \div b

Min(a, b) == IF a < b THEN a ELSE b

----------------------------------------------------------------------------
(* Initial state: the script has started, nothing is read or written yet.  *)
(* outFile.state = "prior" stands for whatever was at the output path      *)
(* before the run (a file of any content, or no file).                     *)

NoGrid == <<>>

Init ==
    /\ pc = "start"
    /\ width = 0 /\ height = 0 /\ pixels = NoGrid
    /\ y = 0 /\ x = 0 /\ bit = 0 /\ byte_val = 0
    /\ bitmap_data = <<>>
    /\ reads = <<>>
    /\ c_code = <<>> /\ i = 0 /\ c_bitmap = <<>>
    /\ outFile = [state |-> "prior", chunks |-> 0]
    /\ wr = 0
    /\ exc = "none"
    /\ stdout = <<>>
    /\ exitStatus = -1
    /\ run = 1 /\ first = <<>>

\* an exception leaves the try block for the handler of line 94
Raise(e) ==
    /\ exc' = e
    /\ pc' = "except"

----------------------------------------------------------------------------
(* png_to_c_bitmap, lines 13-31: open and convert the image.               *)

\* the sizes and sample lists the image library may hand back: W*H samples,
\* each 0 or 255.  Nothing in the script constrains img.size, so a width or
\* height of 0 is among them.
Grids ==
    UNION { { [w |-> w, h |-> h, px |-> p] : p \in [1 .. w * h -> PixelValues] }
            : <<w, h>> \in { d \in (0 .. MaxCells) \X (0 .. MaxCells) :
                               d[1] * d[2] <= MaxCells } }

\* ImageOpen with the failure swallowed: the run goes on to the output file
ImageOpenSwallow ==
    /\ pc = "start"
    /\ \E ok \in BOOLEAN :
         IF ok
         THEN /\ pc' = "opened"
              /\ stdout' = Append(stdout, "original")
              /\ exc' = exc
         ELSE /\ exc' = "InputNotFound"
              /\ pc' = "open_out"
              /\ stdout' = stdout
    /\ UNCHANGED <<imgVars, packVars, textVars, fileVars, exitStatus, runVars>>

\* line 13-14: Image.open either raises or returns an image
ImageOpen ==
    /\ pc = "start"
    /\ \E ok \in BOOLEAN :
         IF ok
         THEN /\ pc' = "opened"
              /\ stdout' = Append(stdout, "original")
              /\ exc' = exc
         ELSE /\ Raise("InputNotFound")
              /\ stdout' = stdout
    /\ UNCHANGED <<imgVars, packVars, textVars, fileVars, exitStatus, runVars>>

\* lines 17-31: the conversions either raise or give the 1-bit image, whose
\* size and samples are read
Convert ==
    /\ pc = "opened"
    /\ \/ /\ \E g \in Grids :
               /\ width' = g.w
               /\ height' = g.h
               /\ pixels' = g.px
          /\ stdout' = Append(stdout, "converted")
          /\ pc' = "bitmap_init"
          /\ exc' = exc
       \/ /\ Raise("DecodeFailure")
          /\ UNCHANGED <<imgVars, stdout>>
    /\ UNCHANGED <<packVars, textVars, fileVars, exitStatus, runVars>>

----------------------------------------------------------------------------
(* png_to_c_bitmap, lines 34-43: the packing loop.                         *)

\* PixelIdx one sample too far
PixelIdxOff(yy, b, w, xx) == (yy + b) * w + xx + 1

\* line 40
PixelIdx(yy, b, w, xx) == (yy + b) * w + xx

\* line 39
RowInBounds(yy, b, h) == yy + b < h

\* line 41, left operand
IdxInBounds(k, px) == k < Len(px)

\* IsBlack with the comparison inverted
IsWhite(px, k) == px[k + 1] # Black

\* line 41, right operand
IsBlack(px, k) == px[k + 1] = Black

\* NextPage with a step of 9 rows
NextPageOff(yy) == yy + PageRows + 1

\* line 35: the step of range(0, height, 8)
NextPage(yy) == yy + PageRows

\* BitmapInit without the fresh list: the bytes of an earlier execution stay
BitmapInitKeep ==
    /\ pc = "bitmap_init"
    /\ bitmap_data' = bitmap_data
    /\ y' = 0
    /\ reads' = [k \in 1 .. Len(pixels) |-> 0]
    /\ pc' = "for_y"
    /\ UNCHANGED <<imgVars, x, bit, byte_val, textVars, fileVars, exc, stdout,
                   exitStatus, runVars>>

\* line 34
BitmapInit ==
    /\ pc = "bitmap_init"
    /\ bitmap_data' = <<>>
    /\ y' = 0
    /\ reads' = [k \in 1 .. Len(pixels) |-> 0]
    /\ pc' = "for_y"
    /\ UNCHANGED <<imgVars, x, bit, byte_val, textVars, fileVars, exc, stdout,
                   exitStatus, runVars>>

\* line 35: the head of the loop over pages
ForY ==
    /\ pc = "for_y"
    /\ IF y < height
       THEN /\ x' = 0
            /\ pc' = "for_x"
       ELSE /\ x' = x
            /\ pc' = "template"
    /\ UNCHANGED <<imgVars, y, bit, byte_val, bitmap_data, reads, textVars,
                   fileVars, exc, stdout, exitStatus, runVars>>

\* lines 36-37: the head of the loop over columns
ForX ==
    /\ pc = "for_x"
    /\ IF x < width
       THEN /\ byte_val' = 0
            /\ bit' = 0
            /\ y' = y
            /\ pc' = "for_bit"
       ELSE /\ y' = NextPage(y)
            /\ UNCHANGED <<byte_val, bit>>
            /\ pc' = "for_y"
    /\ UNCHANGED <<imgVars, x, bitmap_data, reads, textVars, fileVars, exc,
                   stdout, exitStatus, runVars>>

\* lines 38-43: one iteration of the loop over bits, or, when it is over, the
\* append of line 43
ForBit ==
    /\ pc = "for_bit"
    /\ IF bit < PageRows
       THEN LET k == PixelIdx(y, bit, width, x) IN
            /\ IF RowInBounds(y, bit, height) /\ IdxInBounds(k, pixels)
               THEN /\ reads' = [reads EXCEPT ![k + 1] = @ + 1]
                    /\ byte_val' = IF IsBlack(pixels, k)
                                   THEN OrBit(byte_val, bit) ELSE byte_val
               ELSE UNCHANGED <<reads, byte_val>>
            /\ bit' = bit + 1
            /\ UNCHANGED <<bitmap_data, x, pc>>
       ELSE /\ bitmap_data' = Append(bitmap_data, byte_val)
            /\ x' = x + 1
            /\ pc' = "for_x"
            /\ UNCHANGED <<reads, byte_val, bit>>
    /\ UNCHANGED <<imgVars, y, textVars, fileVars, exc, stdout, exitStatus,
                   runVars>>

----------------------------------------------------------------------------
(* png_to_c_bitmap, lines 46-67: the header text.                          *)

\* output_name's default value, line 9
OutputName == "augmental_logo"

\* lines 46-53: the f-string, its replacement fields filled in
Template(w, h, name) ==
    << "/* Augmental logo bitmap - ", ToString(w), "x", ToString(h),
       " pixels */\n#include <stdint.h>\n\n#define AUGMENTAL_LOGO_WIDTH  ",
       ToString(w), "\n#define AUGMENTAL_LOGO_HEIGHT ", ToString(h),
       "\n\nstatic const uint8_t ", name, "_bitmap[] = {\n" >>

HexDigits == << "0", "1", "2", "3", "4", "5", "6", "7",
                "8", "9", "A", "B", "C", "D", "E", "F" >>

\* line 58: f"0x{b:02X}"
HexLiteral(b) ==
    IF b < 256
    THEN << "0", "x", HexDigits[(b \div 16) + 1], HexDigits[(b % 16) + 1] >>
    ELSE << "0", "x", HexDigits[(b \div 256) + 1],
            HexDigits[((b \div 16) % 16) + 1], HexDigits[(b % 16) + 1] >>

\* line 59: ", ".join(hex_values)
RECURSIVE Join(_)
Join(lits) ==
    IF Len(lits) = 0 THEN <<>>
    ELSE IF Len(lits) = 1 THEN lits[1]
    ELSE lits[1] \o << ",", " " >> \o Join(Tail(lits))

\* line 57: bitmap_data[i:i+16]
Slice(data, from) == SubSeq(data, from + 1, Min(from + RowLen, Len(data)))

\* MoreRows with <= for <
MoreRowsIncl(from, data) == from + RowLen <= Len(data)

\* line 60
MoreRows(from, data) == from + RowLen < Len(data)

\* lines 57-62: the text one iteration appends
RowText(data, from) ==
    LET row == Slice(data, from)
        hex_values == [k \in 1 .. Len(row) |-> HexLiteral(row[k])]
    IN  << " ", " ", " ", " " >> \o Join(hex_values)
        \o (IF MoreRows(from, data) THEN << "," >> ELSE <<>>)
        \o << "\n" >>

\* line 64
Closing == << "}", ";", "\n" >>

\* lines 46-53
TemplateStep ==
    /\ pc = "template"
    /\ c_code' = Template(width, height, OutputName)
    /\ i' = 0
    /\ pc' = "for_i"
    /\ UNCHANGED <<imgVars, packVars, c_bitmap, fileVars, exc, stdout,
                   exitStatus, runVars>>

\* lines 56-67: one iteration of the loop over rows of literals, or, when it
\* is over, the closing line, the summary and the return into line 73
ForI ==
    /\ pc = "for_i"
    /\ IF i < Len(bitmap_data)
       THEN /\ c_code' = c_code \o RowText(bitmap_data, i)
            /\ i' = i + RowLen
            /\ UNCHANGED <<c_bitmap, stdout, pc>>
       ELSE /\ c_code' = c_code \o Closing
            /\ stdout' = Append(stdout, "generated")
            /\ c_bitmap' = c_code'
            /\ pc' = "open_out"
            /\ i' = i
    /\ UNCHANGED <<imgVars, packVars, fileVars, exc, exitStatus, runVars>>

----------------------------------------------------------------------------
(* __main__, lines 76-96: the output file, the summary, the handler.       *)

\* line 77: open(output_file, 'w') creates or truncates the file, or raises
\* and leaves the path as it was
OpenOutput ==
    /\ pc = "open_out"
    /\ \/ /\ outFile' = [state |-> "new", chunks |-> 0]
          /\ wr' = 0
          /\ pc' = "write"
          /\ exc' = exc
       \/ /\ Raise("WriteFailure")
          /\ UNCHANGED fileVars
    /\ UNCHANGED <<imgVars, packVars, textVars, stdout, exitStatus, runVars>>

\* lines 78-86: the next f.write either writes its text or raises; after the
\* last one the with block closes the file
Write ==
    /\ pc = "write"
    /\ IF wr < NumWrites
       THEN \/ /\ outFile' = [outFile EXCEPT !.chunks = @ + 1]
               /\ wr' = wr + 1
               /\ UNCHANGED <<pc, exc>>
            \/ /\ Raise("WriteFailure")
               /\ UNCHANGED fileVars
       ELSE /\ pc' = "saved"
            /\ UNCHANGED <<fileVars, exc>>
    /\ UNCHANGED <<imgVars, packVars, textVars, stdout, exitStatus, runVars>>

\* lines 88-92, then the script runs off its end
Saved ==
    /\ pc = "saved"
    /\ stdout' = stdout \o << "saved", "preview" >>
    /\ exitStatus' = ExitSuccess
    /\ pc' = "exit"
    /\ UNCHANGED <<imgVars, packVars, textVars, fileVars, exc, runVars>>

\* Except without sys.exit(1): the script runs off its end
ExceptNoExit ==
    /\ pc = "except"
    /\ stdout' = Append(stdout, "error")
    /\ exitStatus' = ExitSuccess
    /\ pc' = "exit"
    /\ UNCHANGED <<imgVars, packVars, textVars, fileVars, exc, runVars>>

\* lines 94-96
Except ==
    /\ pc = "except"
    /\ stdout' = Append(stdout, "error")
    /\ exitStatus' = ExitFailure
    /\ pc' = "exit"
    /\ UNCHANGED <<imgVars, packVars, textVars, fileVars, exc, runVars>>

----------------------------------------------------------------------------
(* One run of the script. *)

Next ==
    \/ ImageOpen
    \/ Convert
    \/ BitmapInit
    \/ ForY
    \/ ForX
    \/ ForBit
    \/ TemplateStep
    \/ ForI
    \/ OpenOutput
    \/ Write
    \/ Saved
    \/ Except

Spec == Init /\ [][Next]_vars

\* the interpreter runs the script's next statement until the process exits
FairSpec == Spec /\ WF_vars(Next)

----------------------------------------------------------------------------
(* The packing loop on its own, executed twice on one pixel grid.          *)

\* the state in which line 34 is reached, for every grid of the contract
InitPack ==
    /\ pc = "bitmap_init"
    /\ \E g \in Grids :
         /\ g.w >= 1 /\ g.h >= 1
         /\ width = g.w /\ height = g.h /\ pixels = g.px
    /\ y = 0 /\ x = 0 /\ bit = 0 /\ byte_val = 0
    /\ bitmap_data = <<>>
    /\ reads = <<>>
    /\ c_code = <<>> /\ i = 0 /\ c_bitmap = <<>>
    /\ outFile = [state |-> "prior", chunks |-> 0]
    /\ wr = 0
    /\ exc = "none"
    /\ stdout = << "original", "converted" >>
    /\ exitStatus = -1
    /\ run = 1 /\ first = <<>>

\* the loop has run to its end: keep its result and enter it again with the
\* same grid.  The loop variables keep the values the first execution left.
Again ==
    /\ pc = "template"
    /\ run = 1
    /\ first' = bitmap_data
    /\ run' = 2
    /\ pc' = "bitmap_init"
    /\ UNCHANGED <<imgVars, packVars, textVars, fileVars, exc, stdout,
                   exitStatus>>

NextPack ==
    \/ BitmapInit
    \/ ForY
    \/ ForX
    \/ ForBit
    \/ Again

SpecPack == InitPack /\ [][NextPack]_vars

----------------------------------------------------------------------------
(* The renderer on its own, on packed bitmaps of up to MaxBytes bytes.     *)

Seeds == {0, 165}

Strides == {0, 1, 37, 255}

\* n bytes, byte k being seed + k * stride (mod 256)
Ramp(n, seed, stride) == [k \in 1 .. n |-> (seed + (k - 1) * stride) % 256]

\* the one-page grid of width Len(data) whose packing is data
Unpack(data) ==
    [k \in 1 .. PageRows * Len(data) |->
        IF BitOf(data[((k - 1) % Len(data)) + 1], (k - 1) \div Len(data)) = 1
        THEN 0 ELSE 255]

\* the state in which line 46 is reached after packing Unpack(data)
InitRender ==
    /\ pc = "template"
    /\ \E n \in 1 .. MaxBytes, seed \in Seeds, stride \in Strides :
         /\ bitmap_data = Ramp(n, seed, stride)
         /\ width = n
         /\ x = n
    /\ height = PageRows
    /\ pixels = Unpack(bitmap_data)
    /\ y = PageRows /\ bit = PageRows
    /\ byte_val = bitmap_data[Len(bitmap_data)]
    /\ reads = [k \in 1 .. Len(pixels) |-> 1]
    /\ c_code = <<>> /\ i = 0 /\ c_bitmap = <<>>
    /\ outFile = [state |-> "prior", chunks |-> 0]
    /\ wr = 0
    /\ exc = "none"
    /\ stdout = << "original", "converted" >>
    /\ exitStatus = -1
    /\ run = 1 /\ first = <<>>

NextRender ==
    \/ TemplateStep
    \/ ForI

SpecRender == InitRender /\ [][NextRender]_vars

----------------------------------------------------------------------------
(* Properties. *)

InSeq(sq, e) == \E k \in 1 .. Len(sq) : sq[k] = e

\* the packing loop has run to its end in this run
Packed ==
    \/ pc \in {"template", "for_i", "open_out", "write", "saved"}
    \/ pc \in {"except", "exit"} /\ InSeq(stdout, "generated")

\* the contract's input constraints of the packer
InContract == width >= 1 /\ height >= 1 /\ Len(pixels) = width * height

Pages == CeilDiv(height, 8)

\* the sample at column xx of row yy is black
BlackAt(xx, yy) == pixels[yy * width + xx + 1] = 0

AllBlack == \A k \in 1 .. Len(pixels) : pixels[k] = 0

\* C1: for every grid with W >= 1 and H >= 1 the packing loop yields exactly
\* W * ceil(H/8) bytes.
C1_PackedLength ==
    (Packed /\ InContract) => Len(bitmap_data) = width * Pages

C1_Witness ==
    /\ pc = "template"
    /\ width = 1 /\ height = 9
    /\ Len(bitmap_data) = 2

C5_OutputUntouched ==
    /\ exc \in {"InputNotFound", "DecodeFailure"} => outFile.state = "prior"
    /\ outFile.state # "prior" =>
         InSeq(stdout, "generated") /\ Len(c_bitmap) > 0

C5_Witness ==
    /\ pc = "exit"
    /\ exc = "InputNotFound"
    /\ outFile.state = "prior"
    /\ exitStatus = ExitFailure

\* the header is on disk whole
Complete == outFile.state = "new" /\ outFile.chunks = NumWrites

\* C6: after a run that ends in failure the output file holds its prior
\* content or the complete new header, never a part of it.
C6_NoPartialOutput ==
    (pc = "exit" /\ exitStatus # ExitSuccess) =>
        outFile.state = "prior" \/ Complete

\* C7: every run ends, and ends in one of two outcomes: a step failed, the
\* error message is printed and the status is non-zero; or no step failed,
\* the header is written, the summary is printed and the status is 0.
C7_Outcomes ==
    /\ <>(pc = "exit")
    /\ [](pc = "exit" =>
            \/ /\ exc # "none"
               /\ exitStatus = ExitFailure
               /\ exitStatus # 0
               /\ stdout[Len(stdout)] = "error"
               /\ ~ InSeq(stdout, "saved")
            \/ /\ exc = "none"
               /\ exitStatus = 0
               /\ Complete
               /\ InSeq(stdout, "original") /\ InSeq(stdout, "converted")
               /\ InSeq(stdout, "generated") /\ InSeq(stdout, "saved")
               /\ ~ InSeq(stdout, "error"))
    /\ [](pc # "exit" => exitStatus = -1)

C7_Witness ==
    /\ pc = "exit"
    /\ exc = "WriteFailure"
    /\ exitStatus = ExitFailure
    /\ outFile.state = "new"

\* the renderer has returned
Rendered == Len(c_bitmap) > 0

\* the index of the first line feed of t, 0 when it has none
FirstLf(t) ==
    IF \E k \in 1 .. Len(t) : t[k] = "\n"
    THEN CHOOSE k \in 1 .. Len(t) :
             t[k] = "\n" /\ \A j \in 1 .. k - 1 : t[j] # "\n"
    ELSE 0

\* the lines of t, each without its line feed
RECURSIVE SplitLines(_)
SplitLines(t) ==
    IF Len(t) = 0 THEN <<>>
    ELSE IF FirstLf(t) = 0 THEN <<t>>
    ELSE <<SubSeq(t, 1, FirstLf(t) - 1)>>
         \o SplitLines(SubSeq(t, FirstLf(t) + 1, Len(t)))

\* the value of an upper-case hexadecimal digit, -1 for any other character
HexVal(c) ==
    CASE c = "0" -> 0  [] c = "1" -> 1  [] c = "2" -> 2  [] c = "3" -> 3
      [] c = "4" -> 4  [] c = "5" -> 5  [] c = "6" -> 6  [] c = "7" -> 7
      [] c = "8" -> 8  [] c = "9" -> 9  [] c = "A" -> 10 [] c = "B" -> 11
      [] c = "C" -> 12 [] c = "D" -> 13 [] c = "E" -> 14 [] c = "F" -> 15
      [] OTHER -> -1

\* what the renderer put between the template and the closing line
LiteralText ==
    SubSeq(c_bitmap, Len(Template(width, height, OutputName)) + 1,
           Len(c_bitmap) - 3)

LiteralLines == SplitLines(LiteralText)

\* line ln holds exactly the literals of bytes from + 1 .. from + cnt of
\* bitmap_data, after four spaces, ", " between two of them, and a comma
\* at its end iff comma
LineHolds(ln, from, cnt, comma) ==
    /\ Len(ln) = 4 + 4 * cnt + 2 * (cnt - 1) + (IF comma THEN 1 ELSE 0)
    /\ \A k \in 1 .. 4 : ln[k] = " "
    /\ \A m \in 0 .. cnt - 1 :
         LET at == 4 + 6 * m IN
         /\ ln[at + 1] = "0" /\ ln[at + 2] = "x"
         /\ HexVal(ln[at + 3]) >= 0 /\ HexVal(ln[at + 4]) >= 0
         /\ 16 * HexVal(ln[at + 3]) + HexVal(ln[at + 4])
              = bitmap_data[from + m + 1]
         /\ m < cnt - 1 => ln[at + 5] = "," /\ ln[at + 6] = " "
    /\ comma <=> ln[Len(ln)] = ","

C9_TwoRuns ==
    /\ []((run = 2 /\ pc = "template") => bitmap_data = first)
    /\ [][pixels' = pixels /\ width' = width /\ height' = height]_vars

C9_Witness ==
    /\ run = 2
    /\ pc = "template"
    /\ width = 1 /\ height = 9
    /\ first = <<1, 1>>
    /\ bitmap_data = first

\* C10: with W*H samples, every index computed after the row check passed
\* lies in [0, W*H), so the length check of line 41 passes too; and when the
\* loop is over every sample has been read exactly once.
C10_IndexInRange ==
    Len(pixels) = width * height =>
        /\ (pc = "for_bit" /\ bit < 8 /\ y + bit < height) =>
             LET k == (y + bit) * width + x IN
             /\ 0 <= k /\ k < width * height
             /\ IdxInBounds(PixelIdx(y, bit, width, x), pixels)
        /\ pc \in {"for_y", "for_x", "for_bit"} =>
             \A k \in 1 .. Len(pixels) : reads[k] <= 1
        /\ Packed => \A k \in 1 .. Len(pixels) : reads[k] = 1

C10_Witness ==
    /\ pc = "template"
    /\ width = 3 /\ height = 3
    /\ \A k \in 1 .. 9 : reads[k] = 1

====
